---------------------------- MODULE Spec2Model ----------------------------
(***************************************************************************)
(* Model of pts.test.functional: the SkirtTestSuite class and its          *)
(* perform() scheduler loop (src/test/functional.py).                      *)
(*                                                                         *)
(* A test case is identified by the path of its ski file.  Paths are       *)
(* modelled by the numbers 1..MaxCases, ordered the way the paths compare  *)
(* when sorted().  Every case is executed at most once, so a simulation    *)
(* handle (pts.simulation Simulation) is identified by the ski path it     *)
(* was created for, and its external process by proc[path].                *)
(*                                                                         *)
(* The single controlling thread runs the phases of the loop one after     *)
(* the other; the external SKIRT processes end at any time in between.     *)
(* Every isRunning() poll observes one process, a process never returns    *)
(* to the running state, and the processes are independent of each other,  *)
(* so the observations of one phase are the observations of one instant:   *)
(* each phase is one action, and ProcessEnds interleaves between phases.   *)
(***************************************************************************)
EXTENDS Integers, Sequences, FiniteSets, TLC

\* largest number of ski files in the suite directory
MaxCases == 3
\* largest value returned by multiprocessing.cpu_count()
MaxCpu == 2

Paths == 1..MaxCases

\* what Simulation.status() can return once the process has ended
TerminalStatuses == {"Finished", "Crashed", "NotStarted"}

\* the order of sorted() on the status strings
StatusOrder == <<"Crashed", "Failed", "Succeeded">>

Min(a, b) == IF a < b THEN a ELSE b
Max(a, b) == IF a > b THEN a ELSE b

RECURSIVE sorted(_)
sorted(S) ==
    IF S = {} THEN <<>>
    ELSE LET m == CHOOSE x \in S : \A y \in S : x <= y
         IN  <<m>> \o sorted(S \ {m})

Range(s) == {s[i] : i \in 1..Len(s)}

VARIABLES
    skiPaths,     \* self._skiPaths: the sorted list of ski file paths
    cpuCount,     \* the value multiprocessing.cpu_count() returns
    outReport,    \* per case: the contents of out/_testreport.txt
    skirts,       \* per execution context: its _process (0 for None)
    proc,         \* per case: the state of the external process
    cases,        \* remaining test cases
    sims,         \* simulations being processed
    numTotal,
    numDone,
    oldNumDone,
    statistics,   \* status string -> count
    logLines,     \* the "{numDone} -- {testname}: {status}" log lines
    conReport,    \* the lines of the consolidated report file
    conOpened,    \* how many times the consolidated report was opened "wt"
    slept,        \* whether the last pass ended in time.sleep(1)
    dispatched,   \* history: <<ski path, skirt index>> per execute() call
    pc,
    suite,        \* a SkirtTestSuite constructor call on a directory tree
    caseDirs,     \* the case directories that clean() works on
    backup        \* a run of the create_backup script

vars == <<skiPaths, cpuCount, outReport, skirts, proc, cases, sims, numTotal,
          numDone, oldNumDone, statistics, logLines, conReport, conOpened,
          slept, dispatched, pc, suite, caseDirs, backup>>

\* the state that perform() does not touch
aside == <<suite, caseDirs, backup>>

-----------------------------------------------------------------------------
(* SkirtTestSuite.__init__ *)

\* the constructor raises UserError unless there is at least one valid case;
\* multiprocessing.cpu_count() returns a positive number or raises
Init ==
    /\ \E S \in (SUBSET Paths) \ {{}} : skiPaths = sorted(S)
    /\ cpuCount \in 1..MaxCpu
    /\ outReport \in [Paths -> {"none", "stale"}]
    /\ \A p \in Paths : p \notin Range(skiPaths) => outReport[p] = "none"
    /\ skirts = <<>>
    /\ proc = [p \in Paths |-> "none"]
    /\ cases = <<>>
    /\ sims = <<>>
    /\ numTotal = 0
    /\ numDone = 0
    /\ oldNumDone = 0
    /\ statistics = <<>>
    /\ logLines = <<>>
    /\ conReport = <<>>
    /\ conOpened = 0
    /\ slept = FALSE
    /\ dispatched = <<>>
    /\ pc = "start"
    /\ suite = <<>>
    /\ caseDirs = <<>>
    /\ backup = <<>>

-----------------------------------------------------------------------------
(* SkirtTestSuite.clean *)

\* faulty variant: the loop over the ski files ends after the first case
cleanFirstCase(files) ==
    [p \in Paths |-> IF skiPaths # <<>> /\ p = skiPaths[1]
                     THEN "none" ELSE files[p]]

\* the out directory of every case of the suite loses its files
clean(files) ==
    [p \in Paths |-> IF p \in Range(skiPaths) THEN "none" ELSE files[p]]


-----------------------------------------------------------------------------
(* SkirtTestSuite.perform: setup *)

\* faulty variant: as many contexts as cores, also when there are fewer cases
numCoresPerCpu(n, cpu) == Max(cpu, 1)

\* the number of SKIRT execution contexts
numCores(n, cpu) == Min(n, Max(cpu, 1))

CreateSkirts ==
    /\ pc = "start"
    /\ skirts' = [core \in 1..numCores(Len(skiPaths), cpuCount) |-> 0]
    /\ pc' = "clean"
    /\ UNCHANGED aside
    /\ UNCHANGED <<skiPaths, cpuCount, outReport, proc, cases, sims, numTotal,
                   numDone, oldNumDone, statistics, logLines, conReport,
                   conOpened, slept, dispatched>>

\* faulty variant: the first ski path is missing from the copy
remainingButFirst(paths) == Tail(paths)

\* the list of remaining test cases is a copy of the list of ski paths
remainingCases(paths) == paths

CleanAndInit ==
    /\ pc = "clean"
    /\ outReport' = clean(outReport)
    /\ statistics' = <<>>
    /\ cases' = remainingCases(skiPaths)
    /\ sims' = <<>>
    /\ numTotal' = Len(cases')
    /\ numDone' = 0
    /\ pc' = "dispatch"
    /\ UNCHANGED aside
    /\ UNCHANGED <<skiPaths, cpuCount, skirts, proc, oldNumDone, logLines,
                   conReport, conOpened, slept, dispatched>>

-----------------------------------------------------------------------------
(* pts.simulation: Skirt and Simulation *)

\* Skirt.isRunning(): the process last started by this context is running
skirtIsRunning(sk, pr, i) == sk[i] # 0 /\ pr[sk[i]] = "Running"

\* Simulation.isRunning(): the process of this simulation is running
simIsRunning(pr, sim) == pr[sim] = "Running"

\* Simulation.status() once the process has ended
simStatus(pr, sim) == pr[sim]

\* an external SKIRT process ends, properly or not
ProcessEnds(p, status) ==
    /\ proc[p] = "Running"
    /\ proc' = [proc EXCEPT ![p] = status]
    /\ UNCHANGED aside
    /\ UNCHANGED <<skiPaths, cpuCount, outReport, skirts, cases, sims,
                   numTotal, numDone, oldNumDone, statistics, logLines,
                   conReport, conOpened, slept, dispatched, pc>>

-----------------------------------------------------------------------------
(* SkirtTestSuite.perform: the main event loop *)

\* faulty variant: a context starts a new execution whenever cases remain
mayStartWhileRunning(sk, pr, i, cs) == Len(cs) > 0

\* a context starts a new execution when it is not running and cases remain
mayStart(sk, pr, i, cs) == ~skirtIsRunning(sk, pr, i) /\ Len(cs) > 0

\* skirt.execute(skipath, wait=False) on context i, appended to sims
execute(st, i, skipath) ==
    [cases  |-> st.cases,
     sims   |-> Append(st.sims, skipath),
     skirts |-> [st.skirts EXCEPT ![i] = skipath],
     proc   |-> [st.proc EXCEPT ![skipath] = "Running"],
     disp   |-> Append(st.disp, <<skipath, i>>)]

\* faulty variant: cases.pop() takes the last case of the list
popLastAndExecute(st, i) ==
    execute([st EXCEPT !.cases = SubSeq(st.cases, 1, Len(st.cases) - 1)],
            i, st.cases[Len(st.cases)])

\* cases.pop(0) followed by the execution of the popped case on context i
popAndExecute(st, i) ==
    execute([st EXCEPT !.cases = Tail(st.cases)], i, Head(st.cases))

\* faulty variant: the loop over the contexts ends at the first execution it starts
RECURSIVE startOneExecution(_, _)
startOneExecution(i, st) ==
    IF i > Len(st.skirts) THEN st
    ELSE IF ~skirtIsRunning(st.skirts, st.proc, i) /\ Len(st.cases) > 0
         THEN popAndExecute(st, i)
         ELSE startOneExecution(i + 1, st)

\* for skirt in skirts: ...
RECURSIVE startExecutions(_, _)
startExecutions(i, st) ==
    IF i > Len(st.skirts) THEN st
    ELSE IF mayStart(st.skirts, st.proc, i, st.cases)
         THEN startExecutions(i + 1, popAndExecute(st, i))
         ELSE startExecutions(i + 1, st)

Dispatch ==
    /\ pc = "dispatch"
    /\ LET st == startExecutions(1, [cases |-> cases, sims |-> sims,
                                     skirts |-> skirts, proc |-> proc,
                                     disp |-> dispatched])
       IN  /\ cases' = st.cases
           /\ sims' = st.sims
           /\ skirts' = st.skirts
           /\ proc' = st.proc
           /\ dispatched' = st.disp
    /\ pc' = "poll"
    /\ UNCHANGED aside
    /\ UNCHANGED <<skiPaths, cpuCount, outReport, numTotal, numDone,
                   oldNumDone, statistics, logLines, conReport, conOpened,
                   slept>>

\* faulty variant: the scan of sims starts at the second simulation
firstReadyAfterHead(ss, pr) ==
    IF \E i \in 2..Len(ss) : ~simIsRunning(pr, ss[i])
    THEN CHOOSE i \in 2..Len(ss) :
             /\ ~simIsRunning(pr, ss[i])
             /\ \A j \in 2..(i - 1) : simIsRunning(pr, ss[j])
    ELSE 0

\* faulty variant: the scan of sims ends after the first simulation
headIfReady(ss, pr) ==
    IF Len(ss) > 0 /\ ~simIsRunning(pr, ss[1]) THEN 1 ELSE 0

\* faulty variant: the scan of sims keeps the last simulation that is not running
lastReady(ss, pr) ==
    IF \E i \in 1..Len(ss) : ~simIsRunning(pr, ss[i])
    THEN CHOOSE i \in 1..Len(ss) :
             /\ ~simIsRunning(pr, ss[i])
             /\ \A j \in (i + 1)..Len(ss) : simIsRunning(pr, ss[j])
    ELSE 0

\* the index of the first simulation in sims that is not running, or 0
firstReady(ss, pr) ==
    IF \E i \in 1..Len(ss) : ~simIsRunning(pr, ss[i])
    THEN CHOOSE i \in 1..Len(ss) :
             /\ ~simIsRunning(pr, ss[i])
             /\ \A j \in 1..(i - 1) : simIsRunning(pr, ss[j])
    ELSE 0

\* faulty variant: the reported simulation stays in sims
removeNone(ss, i) == ss

\* del sims[simindex]
removeAt(ss, i) == SubSeq(ss, 1, i - 1) \o SubSeq(ss, i + 1, Len(ss))

\* faulty variant: statistics[status] = 1
countStatusOnce(stats, status) ==
    [k \in DOMAIN stats \cup {status} |->
        IF k = status THEN 1 ELSE stats[k]]

\* statistics[status] += 1, starting from 0 for a new status
countStatus(stats, status) ==
    [k \in DOMAIN stats \cup {status} |->
        IF k = status
        THEN (IF status \in DOMAIN stats THEN stats[status] ELSE 0) + 1
        ELSE stats[k]]

\* faulty variant: only the status "Crashed" is reported as a crash
reportOnlyCrashed(status) ==
    IF status = "Crashed" THEN "Crashed" ELSE "Succeeded"

\* faulty variant: the test on the status is inverted
reportFinishedAsCrashed(status) ==
    IF status = "Finished" THEN "Crashed" ELSE "Succeeded"

\* the status that reportTestCase writes to the report file and returns
reportTestCase(status) ==
    IF status # "Finished" THEN "Crashed" ELSE "Succeeded"

Poll ==
    /\ pc = "poll"
    /\ oldNumDone' = numDone
    /\ LET simindex == firstReady(sims, proc)
       IN  IF simindex = 0
           THEN UNCHANGED <<numDone, outReport, statistics, logLines, sims>>
           ELSE LET sim == sims[simindex]
                    status == reportTestCase(simStatus(proc, sim))
                IN  /\ numDone' = numDone + 1
                    /\ outReport' = [outReport EXCEPT ![sim] = status]
                    /\ statistics' = countStatus(statistics, status)
                    /\ logLines' = Append(logLines,
                                     [num |-> numDone + 1, testname |-> sim,
                                      status |-> status])
                    /\ sims' = removeAt(sims, simindex)
    /\ pc' = "check"
    /\ UNCHANGED aside
    /\ UNCHANGED <<skiPaths, cpuCount, skirts, proc, cases, numTotal,
                   conReport, conOpened, slept, dispatched>>

\* faulty variant: the loop ends one case early
allButOneDone(done, total) == done >= total - 1

\* the loop ends when all test cases have been reported
allDone(done, total) == done = total

TerminationCheck ==
    /\ pc = "check"
    /\ pc' = IF allDone(numDone, numTotal) THEN "summary" ELSE "backoff"
    /\ UNCHANGED aside
    /\ UNCHANGED <<skiPaths, cpuCount, outReport, skirts, proc, cases, sims,
                   numTotal, numDone, oldNumDone, statistics, logLines,
                   conReport, conOpened, slept, dispatched>>

\* faulty variant: the sleep is not conditional
sleepAlways(done, old) == TRUE

\* if no simulation was ready in this pass
noneReady(done, old) == done = old

\* time.sleep(1) when no simulation was ready in this pass
IdleBackoff ==
    /\ pc = "backoff"
    /\ slept' = noneReady(numDone, oldNumDone)
    /\ pc' = "dispatch"
    /\ UNCHANGED aside
    /\ UNCHANGED <<skiPaths, cpuCount, outReport, skirts, proc, cases, sims,
                   numTotal, numDone, oldNumDone, statistics, logLines,
                   conReport, conOpened, dispatched>>

-----------------------------------------------------------------------------
(* SkirtTestSuite.perform: the consolidated test report *)

Line(kind, name, num, text) ==
    [kind |-> kind, name |-> name, num |-> num, text |-> text]

Separator == Line("separator", 0, 0, "---------------")

\* for status in sorted(statistics.keys()): "  {status}: {count}"
summaryLines(stats) ==
    LET keys == SelectSeq(StatusOrder, LAMBDA k : k \in DOMAIN stats)
    IN  [i \in 1..Len(keys) |-> Line("count", 0, stats[keys[i]], keys[i])]

\* faulty variant: the reports are copied in the order in which they were logged
reportedInLogOrder == [i \in 1..Len(logLines) |-> logLines[i].testname]

\* the paths whose reports the consolidated report copies, in this order
reportedPaths == skiPaths

\* for skipath in ...: "{testname}: " followed by the lines of the case's
\* report file; open() raises when the file does not exist
RECURSIVE copyReports(_, _)
copyReports(paths, files) ==
    IF paths = <<>> THEN [lines |-> <<>>, ok |-> TRUE]
    ELSE IF files[Head(paths)] = "none"
         THEN [lines |-> <<Line("case", Head(paths), 0, "")>>, ok |-> FALSE]
         ELSE LET rest == copyReports(Tail(paths), files)
              IN  [lines |-> <<Line("case", Head(paths), 0,
                                    files[Head(paths)])>> \o rest.lines,
                   ok |-> rest.ok]

WriteReport ==
    /\ pc = "summary"
    /\ LET copied == copyReports(reportedPaths, outReport)
       IN  /\ conReport' =
                  <<Line("using", 0, 0, ""), Line("path", 0, 0, ""),
                    Line("summary", 0, numTotal, "")>>
                  \o summaryLines(statistics) \o <<Separator>>
                  \o copied.lines
                  \o (IF copied.ok THEN <<Separator>> ELSE <<>>)
           /\ pc' = IF copied.ok THEN "done" ELSE "failed"
    /\ conOpened' = conOpened + 1
    /\ UNCHANGED aside
    /\ UNCHANGED <<skiPaths, cpuCount, outReport, skirts, proc, cases, sims,
                   numTotal, numDone, oldNumDone, statistics, logLines,
                   slept, dispatched>>

-----------------------------------------------------------------------------

Controller ==
    \/ CreateSkirts
    \/ CleanAndInit
    \/ Dispatch
    \/ Poll
    \/ TerminationCheck
    \/ IdleBackoff
    \/ WriteReport

Next ==
    \/ Controller
    \/ \E p \in Paths, status \in TerminalStatuses : ProcessEnds(p, status)

Spec == Init /\ [][Next]_vars

\* the controlling thread keeps running, and every started process ends
FairSpec ==
    /\ Spec
    /\ WF_vars(Controller)
    /\ \A p \in Paths :
           WF_vars(\E status \in TerminalStatuses : ProcessEnds(p, status))

-----------------------------------------------------------------------------
(* SkirtTestSuite.perform when an execution cannot be launched *)

\* skirt.execute() raises on context f, for instance when the executable
\* is missing
launchFails(f, i) == i = f

\* for skirt in skirts: ... up to the execute() call that raises; the case
\* of that call has left the list of remaining cases
RECURSIVE startUntilRaise(_, _, _)
startUntilRaise(i, st, f) ==
    IF i > Len(st.skirts) THEN [st |-> st, raised |-> FALSE]
    ELSE IF mayStart(st.skirts, st.proc, i, st.cases)
         THEN IF launchFails(f, i)
              THEN [st |-> [st EXCEPT !.cases = Tail(st.cases)],
                    raised |-> TRUE]
              ELSE startUntilRaise(i + 1, popAndExecute(st, i), f)
         ELSE startUntilRaise(i + 1, st, f)

\* faulty variant: the exception is caught and the pass goes on
raiseIgnored == "poll"

\* nothing in perform() handles the exception: it leaves the function
afterRaise == "aborted"

DispatchRaises ==
    /\ pc = "dispatch"
    /\ \E f \in 1..Len(skirts) :
           LET r == startUntilRaise(1, [cases |-> cases, sims |-> sims,
                                        skirts |-> skirts, proc |-> proc,
                                        disp |-> dispatched], f)
           IN  /\ r.raised
               /\ cases' = r.st.cases
               /\ sims' = r.st.sims
               /\ skirts' = r.st.skirts
               /\ proc' = r.st.proc
               /\ dispatched' = r.st.disp
    /\ pc' = afterRaise
    /\ UNCHANGED aside
    /\ UNCHANGED <<skiPaths, cpuCount, outReport, numTotal, numDone,
                   oldNumDone, statistics, logLines, conReport, conOpened,
                   slept>>

NextLaunch ==
    \/ Next
    \/ DispatchRaises

LaunchSpec == Init /\ [][NextLaunch]_vars

-----------------------------------------------------------------------------
(* SkirtTestSuite.__init__: finding the test cases *)

\* largest number of ski files in one directory
MaxSki == 2

\* perform() is not running
Parked ==
    /\ skiPaths = <<>>
    /\ cpuCount = 1
    /\ outReport = [p \in Paths |-> "none"]
    /\ skirts = <<>>
    /\ proc = [p \in Paths |-> "none"]
    /\ cases = <<>>
    /\ sims = <<>>
    /\ numTotal = 0
    /\ numDone = 0
    /\ oldNumDone = 0
    /\ statistics = <<>>
    /\ logLines = <<>>
    /\ conReport = <<>>
    /\ conOpened = 0
    /\ slept = FALSE
    /\ dispatched = <<>>
    /\ pc = "off"

\* the characters of the names of directories and of selector components
Chars(name) ==
    CASE name = "a"   -> <<"a">>
      [] name = "b"   -> <<"b">>
      [] name = "."   -> <<".">>
      [] name = "a.b" -> <<"a", ".", "b">>

\* "." in name
hasPeriod(name) == \E i \in 1..Len(Chars(name)) : Chars(name)[i] = "."

\* the directories that can exist below the suite directory <<>>
TreeDirs ==
    {<<>>, <<"a">>, <<"b">>, <<"a.b">>, <<"a", "b">>, <<"b", "b">>}

\* a tree gives every directory its number of ski files, or -1 when the
\* directory does not exist; the suite directory exists, and so does the
\* parent of every directory that exists
Trees ==
    {t \in [TreeDirs -> -1..MaxSki] :
        /\ t[<<>>] >= 0
        /\ \A d \in TreeDirs :
               (d # <<>> /\ t[d] >= 0) => t[SubSeq(d, 1, Len(d) - 1)] >= 0}

\* the subSuite argument: None, or the string of its "/"-separated parts
Selectors ==
    {[none |-> TRUE, parts |-> <<>>]}
    \cup {[none |-> FALSE, parts |-> ps] :
              ps \in {<<>>} \cup {<<x>> : x \in {"a", "b", ".", "a.b"}}
                     \cup {<<x, y>> : x, y \in {"a", "b", "a.b"}}}

\* a ski file: the directory it is in and its number in that directory
Ski(d, k) == [dir |-> d, file |-> k]

isPrefix(d, e) == Len(d) <= Len(e) /\ SubSeq(e, 1, Len(d)) = d

\* directory.rglob("*.ski")
rglobSki(tree, d) ==
    {x \in [dir : TreeDirs, file : 1..MaxSki] :
        /\ tree[x.dir] >= 0
        /\ isPrefix(d, x.dir)
        /\ x.file <= tree[x.dir]}

\* self._suitePath.rglob(subSuite): the directories below the suite
\* directory whose path ends in the parts of the selector
rglobDirs(tree, parts) ==
    {d \in TreeDirs :
        /\ tree[d] >= 0
        /\ Len(d) >= Len(parts)
        /\ Len(d) >= 1
        /\ SubSeq(d, Len(d) - Len(parts) + 1, Len(d)) = parts}

\* subSuite is None or subSuite == "" or "." in subSuite
selectsSuite(sel) ==
    sel.none \/ sel.parts = <<>>
        \/ \E i \in 1..Len(sel.parts) : hasPeriod(sel.parts[i])

\* the matching sub-suite paths
subSuitePaths(tree, sel) ==
    IF selectsSuite(sel) THEN {<<>>} ELSE rglobDirs(tree, sel.parts)

\* faulty variant: a directory with several ski files yields test cases
someSki(tree, ski) == tree[ski.dir] >= 1

\* len(list(skiPath.parent.glob("*.ski"))) == 1
soleSki(tree, ski) == tree[ski.dir] = 1

\* the set of ski paths of the valid test cases in the sub-suite paths
skiPathSet(tree, subs) ==
    {ski \in UNION {rglobSki(tree, d) : d \in subs} : soleSki(tree, ski)}

\* the rank of a directory name in the order of the strings; the names of
\* the ski files ("1.ski", ...) come before the names of the directories
nameRank(name) ==
    CASE name = "a" -> MaxSki + 1
      [] name = "a.b" -> MaxSki + 2
      [] name = "b" -> MaxSki + 3

\* the parts of the path of a ski file, by their ranks
skiParts(ski) ==
    [i \in 1..Len(ski.dir) |-> nameRank(ski.dir[i])] \o <<ski.file>>

\* the order of paths: the order of their tuples of parts
RECURSIVE partsLess(_, _)
partsLess(p, q) ==
    IF q = <<>> THEN FALSE
    ELSE IF p = <<>> THEN TRUE
    ELSE IF Head(p) # Head(q)
         THEN Head(p) < Head(q)
         ELSE partsLess(Tail(p), Tail(q))

\* sorted(skiPathSet)
RECURSIVE sortedSki(_)
sortedSki(S) ==
    IF S = {} THEN <<>>
    ELSE LET m == CHOOSE x \in S :
                      \A y \in S \ {x} : partsLess(skiParts(x), skiParts(y))
         IN  <<m>> \o sortedSki(S \ {m})

\* faulty variant: an empty list of test cases is accepted
neverEmpty(paths) == FALSE

\* len(self._skiPaths) == 0
noValidCases(paths) == Len(paths) = 0

InitSuite ==
    /\ Parked
    /\ suite \in [tree : Trees, subSuite : Selectors, state : {"new"},
                  subSuitePaths : {{}}, skiPaths : {<<>>}]
    /\ caseDirs = <<>>
    /\ backup = <<>>

\* SkirtTestSuite(subSuite, suitePath=...)
Construct ==
    /\ suite.state \in {"new", "built", "error"}
    /\ LET subs == subSuitePaths(suite.tree, suite.subSuite)
           paths == sortedSki(skiPathSet(suite.tree, subs))
       IN  suite' = [suite EXCEPT
                        !.subSuitePaths = subs,
                        !.skiPaths = paths,
                        !.state = IF noValidCases(paths)
                                  THEN "error" ELSE "built"]
    /\ UNCHANGED <<skiPaths, cpuCount, outReport, skirts, proc, cases, sims,
                   numTotal, numDone, oldNumDone, statistics, logLines,
                   conReport, conOpened, slept, dispatched, pc, caseDirs,
                   backup>>

NextSuite == Construct

SuiteSpec == InitSuite /\ [][NextSuite]_vars

-----------------------------------------------------------------------------
(* SkirtTestSuite.clean on the case directories *)

\* largest number of test cases of the suite that is cleaned
MaxCaseDirs == 2

\* what the out directory of a case can hold: files and subdirectories
OutEntries ==
    {[name |-> "x", isFile |-> TRUE], [name |-> "y", isFile |-> TRUE],
     [name |-> "d", isFile |-> FALSE]}

\* a case directory: its in and ref directories ("absent", "empty" or
\* "data"), and its out directory with its entries
CaseDirs ==
    {c \in [in : {"absent", "empty", "data"},
            ref : {"absent", "empty", "data"},
            out : {"absent", "dir"},
            entries : SUBSET OutEntries] :
        c.out = "absent" => c.entries = {}}

\* faulty variant: mkdir() without exist_ok
existNotOk == FALSE

\* the exist_ok argument of the mkdir() calls
existOk == TRUE

\* Path.mkdir(exist_ok=...) for a directory in state dir: the directory
\* after the call, and whether the call raises FileExistsError
mkdir(dir, absent, created) ==
    [dir |-> IF dir = absent THEN created ELSE dir,
     raised |-> dir # absent /\ ~existOk]

\* for path in (casedir/"out").glob("*"): if path.is_file(): path.unlink()
removeFiles(entries) == {e \in entries : ~e.isFile}

\* the body of the loop of clean() for one case directory
cleanCase(c) ==
    LET in == mkdir(c.in, "absent", "empty")
        out == mkdir(c.out, "absent", "dir")
        ref == mkdir(c.ref, "absent", "empty")
    IN  IF in.raised THEN [dir |-> c, raised |-> TRUE]
        ELSE IF out.raised
             THEN [dir |-> [c EXCEPT !.in = in.dir], raised |-> TRUE]
        ELSE IF ref.raised
             THEN [dir |-> [c EXCEPT !.in = in.dir, !.out = out.dir],
                   raised |-> TRUE]
        ELSE [dir |-> [in |-> in.dir, ref |-> ref.dir, out |-> out.dir,
                       entries |-> removeFiles(c.entries)],
              raised |-> FALSE]

\* for skipath in self._skiPaths: ..., up to the first exception
RECURSIVE cleanFrom(_, _)
cleanFrom(k, dirs) ==
    IF k > Len(dirs) THEN [dirs |-> dirs, raised |-> FALSE]
    ELSE LET r == cleanCase(dirs[k])
         IN  IF r.raised
             THEN [dirs |-> [dirs EXCEPT ![k] = r.dir], raised |-> TRUE]
             ELSE cleanFrom(k + 1, [dirs EXCEPT ![k] = r.dir])

InitClean ==
    /\ Parked
    /\ suite = <<>>
    /\ backup = <<>>
    /\ \E n \in 1..MaxCaseDirs :
           caseDirs \in [dirs : [1..n -> CaseDirs], cleaned : {FALSE},
                         raised : {FALSE}]

\* suite.clean()
Clean ==
    /\ ~caseDirs.raised
    /\ LET r == cleanFrom(1, caseDirs.dirs)
       IN  caseDirs' = [dirs |-> r.dirs, cleaned |-> ~r.raised,
                        raised |-> r.raised]
    /\ UNCHANGED <<skiPaths, cpuCount, outReport, skirts, proc, cases, sims,
                   numTotal, numDone, oldNumDone, statistics, logLines,
                   conReport, conOpened, slept, dispatched, pc, suite,
                   backup>>

\* a simulation writes an output file into the out directory of a case
OutputWritten(k, e) ==
    /\ ~caseDirs.raised
    /\ k \in 1..Len(caseDirs.dirs)
    /\ caseDirs.dirs[k].out = "dir"
    /\ e.isFile
    /\ e \notin caseDirs.dirs[k].entries
    /\ caseDirs' = [caseDirs EXCEPT !.dirs[k].entries = @ \cup {e},
                                    !.cleaned = FALSE]
    /\ UNCHANGED <<skiPaths, cpuCount, outReport, skirts, proc, cases, sims,
                   numTotal, numDone, oldNumDone, statistics, logLines,
                   conReport, conOpened, slept, dispatched, pc, suite,
                   backup>>

NextClean ==
    \/ Clean
    \/ \E k \in 1..MaxCaseDirs, e \in OutEntries : OutputWritten(k, e)

CleanSpec == InitClean /\ [][NextClean]_vars

-----------------------------------------------------------------------------
(* pts.admin.do.create_backup *)

\* largest number of lines of the backup instruction file
MaxLines == 2

\* the lines of an instruction file, as the tokens of line.split()
InstructionLines ==
    {<<>>,
     <<"#", "A">>,
     <<"#original", "A">>,
     <<"original", "A">>,
     <<"derived", "B/c">>,
     <<"repository", "R">>,
     <<"original", "A", "exclude", "pat">>,
     <<"derived", "B/c", "exclude", "pat">>,
     <<"original", "A", "include", "pat">>,
     <<"derived", "B/c", "include", "pat">>,
     <<"repository", "R", "include", "pat">>,
     <<"other", "A">>,
     <<"original">>,
     <<"original", "A", "exclude">>}

\* token.startswith('#')
startsWithHash(token) == token \in {"#", "#original"}

\* len(line.strip())>0 and not line.strip().startswith('#')
isInstruction(line) == Len(line) > 0 /\ ~startsWithHash(line[1])

\* sourcedir.replace("/", "-").lower()
zipStem(sourcedir) ==
    CASE sourcedir = "A" -> "a"
      [] sourcedir = "B/c" -> "b-c"
      [] sourcedir = "R" -> "r"

\* faulty variant: the derived option is not looked at
regularBackupAlways(datatype, derived) ==
    datatype = "original" \/ datatype = "derived"

\* (datatype=="original") or (datatype=="derived" and derived!=0)
regularBackup(datatype, derived) ==
    datatype = "original" \/ (datatype = "derived" /\ derived # 0)

\* datatype=="repository" and repos!=0
repoBackup(datatype, repos) == datatype = "repository" /\ repos # 0

\* the archive "{linecount:02d}-{stem}.zip" or "{linecount:02d}-{stem}-repo.zip"
Archive(linecount, sourcedir, repo, pos) ==
    [num |-> linecount, stem |-> zipStem(sourcedir), repo |-> repo,
     line |-> pos]

\* the body of the loop over the lines of the instruction file, for the
\* line at b.pos
processLine(b) ==
    LET tokens == b.lines[b.pos]
        raise == [b EXCEPT !.state = "error"]
        next == [b EXCEPT !.pos = @ + 1]
    IN  IF ~isInstruction(tokens) THEN next
        ELSE IF Len(tokens) # 2 /\ Len(tokens) # 4 THEN raise
        ELSE IF tokens[1] \notin {"original", "derived", "repository"}
             THEN raise
        ELSE IF regularBackup(tokens[1], b.derived)
             THEN IF Len(tokens) = 4 /\ tokens[3] # "exclude" THEN raise
                  ELSE [next EXCEPT
                           !.linecount = @ + 1,
                           !.archives = Append(@,
                               Archive(b.linecount + 1, tokens[2], FALSE,
                                       b.pos))]
        ELSE IF repoBackup(tokens[1], b.repos)
             THEN [next EXCEPT
                      !.linecount = @ + 1,
                      !.archives = Append(@,
                          Archive(b.linecount + 1, tokens[2], TRUE, b.pos))]
        ELSE next

InitBackup ==
    /\ Parked
    /\ suite = <<>>
    /\ caseDirs = <<>>
    /\ \E n \in 0..MaxLines :
           backup \in [lines : [1..n -> InstructionLines],
                       derived : {0, 1}, repos : {0, 1}, pos : {1},
                       linecount : {0}, archives : {<<>>},
                       state : {"reading"}]

\* for line in insfile: ...
ReadLine ==
    /\ backup.state = "reading"
    /\ backup.pos <= Len(backup.lines)
    /\ backup' = processLine(backup)
    /\ UNCHANGED <<skiPaths, cpuCount, outReport, skirts, proc, cases, sims,
                   numTotal, numDone, oldNumDone, statistics, logLines,
                   conReport, conOpened, slept, dispatched, pc, suite,
                   caseDirs>>

\* the end of the instruction file
EndOfFile ==
    /\ backup.state = "reading"
    /\ backup.pos > Len(backup.lines)
    /\ backup' = [backup EXCEPT !.state = "done"]
    /\ UNCHANGED <<skiPaths, cpuCount, outReport, skirts, proc, cases, sims,
                   numTotal, numDone, oldNumDone, statistics, logLines,
                   conReport, conOpened, slept, dispatched, pc, suite,
                   caseDirs>>

NextBackup ==
    \/ ReadLine
    \/ EndOfFile

BackupSpec == InitBackup /\ [][NextBackup]_vars

-----------------------------------------------------------------------------
(* Properties of the scheduler loop *)

Cases == Range(skiPaths)
InLoop == pc \in {"dispatch", "poll", "check", "backoff"}
Exited == pc \in {"summary", "done", "failed"}
TimesDispatched(p) ==
    Cardinality({i \in 1..Len(dispatched) : dispatched[i][1] = p})
TimesReported(p) ==
    Cardinality({i \in 1..Len(logLines) : logLines[i].testname = p})
Running == {p \in Paths : proc[p] = "Running"}
Ended == {p \in Paths : proc[p] \in TerminalStatuses}
ReadyIn(ss, pr) == {i \in 1..Len(ss) : pr[ss[i]] \in TerminalStatuses}
IdleSkirts == {i \in 1..Len(skirts) : skirts[i] = 0 \/ skirts[i] \in Ended}
SkirtOf(p) == CHOOSE i \in 1..Len(skirts) : <<p, i>> \in Range(dispatched)
PollStep == pc = "poll" /\ pc' = "check"
DispatchStep == pc = "dispatch" /\ pc' = "poll"

\* C1: when the loop has ended, numDone equals the number of discovered
\* cases, no case is pending or being processed, and every discovered case
\* was started exactly once and reported exactly once.
C1_ExitMeansAllDone ==
    Exited =>
        /\ numDone = Len(skiPaths)
        /\ numTotal = Len(skiPaths)
        /\ cases = <<>>
        /\ sims = <<>>
        /\ \A p \in Cases : TimesDispatched(p) = 1 /\ TimesReported(p) = 1

C1_Witness ==
    /\ pc = "summary"
    /\ Len(skiPaths) = MaxCases
    /\ Len(skirts) > 1

\* C2: when the controlling thread keeps running and every started process
\* ends, the loop ends, whatever the number of cases and of execution
\* contexts and whatever the order in which the processes end.
C2_LoopEnds == <>Exited

C2_Witness ==
    /\ pc = "summary"
    /\ Len(skiPaths) > Len(skirts)
    /\ \E i \in 1..Len(logLines) : logLines[i].testname # skiPaths[i]

\* C3: a pass of the loop reports exactly one simulation when at least one
\* simulation in sims has ended at the poll, even when several have, and
\* none otherwise; numDone changes in no other step.
C3_OnePerPass ==
    [][/\ PollStep =>
            /\ numDone' = numDone + (IF ReadyIn(sims, proc) # {} THEN 1 ELSE 0)
            /\ Len(sims') = Len(sims) - (numDone' - numDone)
            /\ Len(logLines') = Len(logLines) + (numDone' - numDone)
       /\ (InLoop /\ ~PollStep) => numDone' = numDone /\ logLines' = logLines
      ]_vars

C3_Witness ==
    /\ pc = "check"
    /\ numDone = oldNumDone + 1
    /\ Cardinality(ReadyIn(sims, proc)) >= 1

\* C4: the cases are started in the order of the sorted list of ski paths,
\* none is started twice, and a case leaves the list of remaining cases in
\* the step that starts it.
C4_FifoDispatch ==
    /\ Len(dispatched) <= Len(skiPaths)
    /\ \A i \in 1..Len(dispatched) : dispatched[i][1] = skiPaths[i]
    /\ \A p \in Cases : TimesDispatched(p) <= 1
    /\ InLoop => Len(dispatched) + Len(cases) = Len(skiPaths)

C4_Witness ==
    /\ Len(dispatched) = MaxCases
    /\ Len(skirts) > 1
    /\ dispatched[MaxCases][2] = 1

Unreported(i) ==
    {p \in Cases : <<p, i>> \in Range(dispatched) /\ TimesReported(p) = 0}

C6_PoolSize ==
    /\ pc # "start" =>
           /\ Len(skirts) = Min(Len(skiPaths), Max(cpuCount, 1))
           /\ Len(skirts) >= 1
    /\ Cardinality(Running) <= Min(Len(skiPaths), cpuCount)

C6_Witness ==
    /\ Cardinality(Running) = cpuCount
    /\ cpuCount > 1
    /\ Len(skiPaths) > cpuCount

\* C7: a Dispatch phase starts one case on every context that is idle,
\* in as far as cases remain: when it ends with cases remaining, every
\* context is running; the first pass starts min(N, S) cases and leaves
\* N - min(N, S) in the list.
C7_NoIdleSlot ==
    [][DispatchStep =>
          /\ cases' # <<>> =>
                 \A i \in 1..Len(skirts) : skirtIsRunning(skirts', proc', i)
          /\ Len(dispatched') - Len(dispatched)
                 = Min(Cardinality(IdleSkirts), Len(cases))
          /\ Len(cases) - Len(cases')
                 = Min(Cardinality(IdleSkirts), Len(cases))
          /\ \A i \in IdleSkirts :
                 Cardinality({k \in (Len(dispatched) + 1)..Len(dispatched') :
                                  dispatched'[k][2] = i}) <= 1
          /\ dispatched = <<>> =>
                 /\ Len(dispatched') = Min(Len(skiPaths), Len(skirts))
                 /\ Len(cases')
                        = Len(skiPaths) - Min(Len(skiPaths), Len(skirts))
      ]_vars

C7_Witness ==
    /\ pc = "poll"
    /\ Len(skirts) = 2
    /\ Len(dispatched) = 2
    /\ Len(cases) = 1
    /\ Cardinality(Running) = 2

Crashed == {p \in Paths : proc[p] \in TerminalStatuses \ {"Finished"}}

\* C8: a case whose process ends in another state than Finished is reported
\* as Crashed, and the run goes on: all cases are started and reported, and
\* the loop ends with numDone equal to the number of cases.
C8_CrashIsolated ==
    /\ [](\A i \in 1..Len(logLines) :
              logLines[i].testname \in Crashed =>
                  /\ logLines[i].status = "Crashed"
                  /\ outReport[logLines[i].testname] = "Crashed"
                  /\ "Crashed" \in DOMAIN statistics)
    /\ [](Crashed # {} =>
              <>(/\ pc = "done"
                 /\ numDone = Len(skiPaths)
                 /\ \A p \in Cases : TimesDispatched(p) = 1
                                        /\ TimesReported(p) = 1))

C8_Witness ==
    /\ pc = "done"
    /\ \E i, j \in 1..Len(logLines) :
           /\ i < j
           /\ proc[logLines[i].testname] = "NotStarted"
           /\ proc[logLines[j].testname] = "Finished"
           /\ logLines[i].testname < logLines[j].testname

CaseLines == SelectSeq(conReport, LAMBDA l : l.kind = "case")

\* C9: the sections of the consolidated report follow the sorted list of
\* ski paths, whatever the order in which the executions ended and were
\* reported.
C9_ReportInDiscoveryOrder ==
    pc = "done" =>
        /\ Len(CaseLines) = Len(skiPaths)
        /\ \A i \in 1..Len(skiPaths) : CaseLines[i].name = skiPaths[i]
        /\ \A i \in 1..(Len(CaseLines) - 1) :
               CaseLines[i].name < CaseLines[i + 1].name

C9_Witness ==
    /\ pc = "done"
    /\ \E i \in 1..Len(logLines) : logLines[i].testname # skiPaths[i]
    /\ Len(skirts) > 1
    /\ <<skiPaths[Len(skiPaths)], 1>> \in Range(dispatched)

\* C10: the consolidated report is written once, after the loop has ended;
\* at that time every case has its report file, and the report has one
\* section per case and ends with the separator line.
C10_ReportWrittenOnce ==
    /\ conOpened <= 1
    /\ pc = "done" => conOpened = 1
    /\ conOpened = 1 =>
           /\ pc = "done"
           /\ numDone = numTotal
           /\ sims = <<>> /\ cases = <<>>
           /\ \A p \in Cases : outReport[p] \in {"Crashed", "Succeeded"}
           /\ \A p \in Cases :
                  Cardinality({i \in 1..Len(conReport) :
                      conReport[i].kind = "case" /\ conReport[i].name = p}) = 1
           /\ conReport[Len(conReport)] = Separator
    /\ conOpened = 0 => conReport = <<>>

C10_Witness ==
    /\ conOpened = 1
    /\ Len(CaseLines) = MaxCases
    /\ \E i \in 1..Len(CaseLines) : CaseLines[i].text = "Crashed"

\* C11: reportTestCase reports Crashed exactly when the status of the
\* simulation is not Finished, and Succeeded otherwise; Failed is never
\* reported.  The report file holds the reported status.
C11_Classification ==
    /\ \A i \in 1..Len(logLines) :
           LET l == logLines[i]
           IN  /\ l.status = "Crashed" <=> proc[l.testname] # "Finished"
               /\ l.status = "Succeeded" <=> proc[l.testname] = "Finished"
               /\ l.status \in {"Crashed", "Succeeded"}
               /\ outReport[l.testname] = l.status
    /\ "Failed" \notin DOMAIN statistics
    /\ \A p \in Paths : outReport[p] # "Failed"

C11_Witness ==
    \E i, j \in 1..Len(logLines) :
        /\ logLines[i].status = "Crashed"
        /\ proc[logLines[i].testname] = "NotStarted"
        /\ logLines[j].status = "Succeeded"

Kinds == {"Crashed", "Failed", "Succeeded"}
KindRank(k) ==
    CASE k = "Crashed" -> 1 [] k = "Failed" -> 2 [] k = "Succeeded" -> 3
CountOf(k) == IF k \in DOMAIN statistics THEN statistics[k] ELSE 0
CountLines == SelectSeq(conReport, LAMBDA l : l.kind = "count")

\* C12: when the loop has ended, the count of every status equals the
\* number of cases whose report file holds that status, the counts add up
\* to the number of cases, and the summary lists the statuses in
\* lexicographic order, with their counts.
C12_Statistics ==
    /\ Exited =>
           /\ \A k \in Kinds :
                  CountOf(k) = Cardinality({p \in Cases : outReport[p] = k})
           /\ DOMAIN statistics \subseteq Kinds
           /\ CountOf("Crashed") + CountOf("Failed") + CountOf("Succeeded")
                  = Len(skiPaths)
           /\ CountOf("Crashed") = Cardinality(Crashed \cap Cases)
    /\ pc = "done" =>
           /\ \A i \in 1..Len(CountLines) :
                  /\ CountLines[i].text \in DOMAIN statistics
                  /\ CountLines[i].num = statistics[CountLines[i].text]
           /\ {CountLines[i].text : i \in 1..Len(CountLines)}
                  = DOMAIN statistics
           /\ \A i \in 1..(Len(CountLines) - 1) :
                  KindRank(CountLines[i].text)
                      < KindRank(CountLines[i + 1].text)

C12_Witness ==
    /\ pc = "done"
    /\ CountOf("Crashed") = 2
    /\ CountOf("Succeeded") = 1
    /\ Len(CountLines) = 2
    /\ logLines[1].status = "Succeeded"

BackoffStep == pc = "backoff" /\ pc' = "dispatch"

\* C19: a pass ends in time.sleep(1) exactly when it reported no simulation
\* and the loop goes on: the pass that reports a simulation is followed by
\* the next Dispatch phase without a sleep, and nothing sleeps once the
\* last case is reported.
C19_SleepWhenIdle ==
    [][/\ PollStep =>
              numDone' - oldNumDone' = Len(logLines') - Len(logLines)
       /\ BackoffStep =>
              /\ slept' <=> (numDone = oldNumDone)
              /\ numDone # numTotal
       /\ ~BackoffStep => slept' = slept
       /\ numDone = numTotal /\ InLoop /\ pc # "dispatch" =>
              ~BackoffStep /\ pc' \in {pc, "summary"}
      ]_vars

C19_Witness ==
    /\ pc = "dispatch"
    /\ ~slept
    /\ numDone = oldNumDone + 1
    /\ sims # <<>>
    /\ \E i \in 1..Len(sims) : proc[sims[i]] = "Running"

\* C20: clean() has emptied the out directory of every case before the
\* first execution starts, and does not run again afterwards.
C20_CleanBeforeDispatch ==
    /\ [](dispatched # <<>> \/ Running # {} =>
              /\ pc \notin {"start", "clean"}
              /\ \A p \in Cases : outReport[p] # "stale")
    /\ [][dispatched # <<>> =>
              /\ pc' # "clean"
              /\ \A p \in Paths :
                     outReport'[p] = "none" => outReport[p] = "none"]_vars

C20_Witness ==
    /\ Len(dispatched) = 1
    /\ Len(skiPaths) > 1
    /\ pc = "poll"
    /\ \A p \in Cases : outReport[p] = "none"

\* a case has left the list of remaining cases without being started
LaunchFailed ==
    /\ pc \notin {"start", "clean"}
    /\ Len(dispatched) + Len(cases) < Len(skiPaths)

\* C13: once execute() has raised in the Dispatch phase the run is over: no
\* case is started or reported afterwards and no consolidated report is
\* written.
C13_LaunchFailureAborts ==
    /\ [](LaunchFailed =>
              /\ pc = "aborted"
              /\ conOpened = 0
              /\ conReport = <<>>
              /\ Len(dispatched) + Len(cases) = Len(skiPaths) - 1)
    /\ [][LaunchFailed =>
              UNCHANGED <<pc, dispatched, cases, sims, skirts, numDone,
                          logLines, statistics, outReport, conOpened,
                          conReport>>]_vars
    /\ [][pc' = "aborted" /\ pc # "aborted" =>
              /\ pc = "dispatch"
              /\ UNCHANGED <<numDone, logLines, statistics, outReport>>
              /\ \A i \in 1..Len(dispatched') : dispatched'[i][1] = skiPaths[i]
              /\ cases' = SubSeq(skiPaths, Len(dispatched') + 2,
                                 Len(skiPaths))]_vars

C13_Witness ==
    /\ pc = "aborted"
    /\ numDone >= 1
    /\ Running # {}
    /\ Len(dispatched) = 2

-----------------------------------------------------------------------------
(* Properties of the constructor *)

AllSki == [dir : TreeDirs, file : 1..MaxSki]
SkiExists(x) == suite.tree[x.dir] >= x.file
UnderCandidate(x) ==
    \E c \in suite.subSuitePaths :
        /\ Len(c) <= Len(x.dir)
        /\ \A i \in 1..Len(c) : c[i] = x.dir[i]
SkiInDir(d) == {x \in AllSki : x.dir = d /\ SkiExists(x)}
LexLess(p, q) ==
    \E k \in 1..(Min(Len(p), Len(q)) + 1) :
        /\ \A i \in 1..(k - 1) : p[i] = q[i]
        /\ \/ k > Len(p) /\ k <= Len(q)
           \/ k <= Len(p) /\ k <= Len(q) /\ p[k] < q[k]
Accepted == {x \in AllSki : SkiExists(x) /\ UnderCandidate(x)
                               /\ Cardinality(SkiInDir(x.dir)) = 1}

\* C14: the constructor keeps a ski file exactly when it is below one of
\* the sub-suite paths and is the only ski file of its directory; every
\* such file is in the list once, and the list is sorted by path, so that
\* it is the same for every call on the same tree.
C14_ValidCasesSorted ==
    suite # <<>> /\ suite.state # "new" =>
        /\ Range(suite.skiPaths) = Accepted
        /\ Len(suite.skiPaths) = Cardinality(Accepted)
        /\ \A i, j \in 1..Len(suite.skiPaths) :
               i < j => LexLess(skiParts(suite.skiPaths[i]),
                                skiParts(suite.skiPaths[j]))

C14_Witness ==
    /\ suite # <<>> /\ suite.state = "built"
    /\ suite.subSuitePaths = {<<"b">>, <<"a", "b">>, <<"b", "b">>}
    /\ suite.tree[<<"b", "b">>] = 1
    /\ suite.tree[<<"b">>] = 2
    /\ suite.tree[<<"a", "b">>] = 1
    /\ Len(suite.skiPaths) = 2

\* C15: the constructor raises UserError exactly when it finds no valid
\* test case, so that a constructed suite has at least one case and
\* perform() creates at least one execution context.
C15_EmptySuiteRejected ==
    suite # <<>> /\ suite.state # "new" =>
        /\ suite.state = "error" <=> Accepted = {}
        /\ suite.state = "built" =>
               /\ Len(suite.skiPaths) >= 1
               /\ \A cpu \in 1..MaxCpu :
                      Len([core \in 1..numCores(Len(suite.skiPaths), cpu)
                               |-> 0]) >= 1

C15_Witness ==
    /\ suite # <<>> /\ suite.state = "error"
    /\ suite.subSuite.parts = <<"a">>
    /\ suite.tree[<<"a">>] = 2
    /\ suite.tree[<<"b">>] = 1

MatchingDirs ==
    {d \in TreeDirs :
        /\ suite.tree[d] >= 0
        /\ d # <<>>
        /\ Len(d) >= Len(suite.subSuite.parts)
        /\ \A i \in 1..Len(suite.subSuite.parts) :
               d[Len(d) - Len(suite.subSuite.parts) + i]
                   = suite.subSuite.parts[i]}

\* C16: the suite directory itself is the sub-suite path only for the
\* selector "."; a name or a "parent/name" selector, also one with a period
\* in a name, selects the directories of that name below the suite
\* directory.
C16_OnlyDotSelectsSuite ==
    (/\ suite # <<>> /\ suite.state # "new"
     /\ ~suite.subSuite.none /\ suite.subSuite.parts # <<>>) =>
        IF suite.subSuite.parts = <<".">>
        THEN suite.subSuitePaths = {<<>>}
        ELSE suite.subSuitePaths = MatchingDirs

-----------------------------------------------------------------------------
(* Properties of clean() *)

CleanStep == caseDirs'.cleaned \/ caseDirs'.raised
Subdirs(c) == {e \in c.entries : ~e.isFile}

\* C17: after a run of clean() every case has its in, out and ref
\* directories and no file in out; a run that follows a run changes nothing
\* and raises nothing; no run changes what in and ref hold or the
\* subdirectories of out.
C17_CleanIdempotent ==
    /\ [](caseDirs # <<>> =>
              /\ ~caseDirs.raised
              /\ caseDirs.cleaned =>
                     \A k \in 1..Len(caseDirs.dirs) :
                         LET c == caseDirs.dirs[k]
                         IN  /\ c.in # "absent" /\ c.ref # "absent"
                             /\ c.out = "dir"
                             /\ \A e \in c.entries : ~e.isFile)
    /\ [][CleanStep =>
              /\ caseDirs.cleaned => caseDirs'.dirs = caseDirs.dirs
              /\ caseDirs'.cleaned
              /\ \A k \in 1..Len(caseDirs.dirs) :
                     LET c == caseDirs.dirs[k]
                         d == caseDirs'.dirs[k]
                     IN  /\ c.in # "absent" => d.in = c.in
                         /\ c.in = "absent" => d.in = "empty"
                         /\ c.ref # "absent" => d.ref = c.ref
                         /\ c.ref = "absent" => d.ref = "empty"
                         /\ Subdirs(d) = Subdirs(c)]_vars

C17_Witness ==
    /\ caseDirs # <<>>
    /\ caseDirs.cleaned
    /\ Len(caseDirs.dirs) = 2
    /\ caseDirs.dirs[1].in = "data"
    /\ caseDirs.dirs[1].entries = {[name |-> "d", isFile |-> FALSE]}
    /\ caseDirs.dirs[2].ref = "data"

-----------------------------------------------------------------------------
(* Properties of the bookkeeping of the loop *)

RECURSIVE SumCounts(_, _)
SumCounts(stats, keys) ==
    IF keys = {} THEN 0
    ELSE LET k == CHOOSE x \in keys : TRUE
         IN  stats[k] + SumCounts(stats, keys \ {k})
IsSuffix(s, t) ==
    /\ Len(s) <= Len(t)
    /\ s = SubSeq(t, Len(t) - Len(s) + 1, Len(t))
PassBoundary == pc \in {"dispatch", "backoff", "summary"}
DispatchIndex(p) == CHOOSE i \in 1..Len(dispatched) : dispatched[i][1] = p
Without(ss, i) ==
    [j \in 1..(Len(ss) - 1) |-> IF j < i THEN ss[j] ELSE ss[j + 1]]

\* C21: at the start and at the end of every pass of the loop, and between
\* its phases, the remaining cases, the simulations in sims and the reported
\* cases together are all discovered cases, the remaining cases are the
\* last ski paths in their order, and the counts in statistics add up to
\* the number of reported cases.
C21_Bookkeeping ==
    (InLoop \/ PassBoundary) =>
        /\ Len(cases) + Len(sims) + numDone = Len(skiPaths)
        /\ numTotal = Len(skiPaths)
        /\ IsSuffix(cases, skiPaths)
        /\ SumCounts(statistics, DOMAIN statistics) = numDone

C21_Witness ==
    /\ pc = "dispatch"
    /\ Len(cases) >= 1
    /\ Len(sims) >= 1
    /\ numDone >= 1
    /\ SumCounts(statistics, DOMAIN statistics) = numDone

\* C22: sims holds its simulations in the order in which they were started;
\* when one or more of them have ended at the poll, the one reported in
\* that pass is the first of them in sims, and the other simulations stay
\* in sims in their order.
C22_EarliestReadyFirst ==
    /\ [](InLoop =>
            \A j, k \in 1..Len(sims) :
                j < k => DispatchIndex(sims[j]) < DispatchIndex(sims[k]))
    /\ [][(PollStep /\ ReadyIn(sims, proc) # {}) =>
            LET i == CHOOSE x \in ReadyIn(sims, proc) :
                         \A y \in ReadyIn(sims, proc) : x <= y
            IN  /\ Len(logLines') = Len(logLines) + 1
                /\ SubSeq(logLines', 1, Len(logLines)) = logLines
                /\ logLines'[Len(logLines')].testname = sims[i]
                /\ sims' = Without(sims, i)
                /\ \A j \in 1..Len(sims) :
                       (j # i /\ j \in ReadyIn(sims, proc)) =>
                           DispatchIndex(sims[i]) < DispatchIndex(sims[j])
          ]_vars

C22_Witness ==
    /\ pc = "check"
    /\ Len(skiPaths) >= 2
    /\ oldNumDone = 0
    /\ Len(logLines) = 1
    /\ logLines[1].testname = skiPaths[1]
    /\ sims = <<skiPaths[2]>>
    /\ proc[skiPaths[2]] \in TerminalStatuses

-----------------------------------------------------------------------------
(* Properties of create_backup *)

LineOf(i) == backup.lines[i]
ArchivesOf(i) ==
    {k \in 1..Len(backup.archives) : backup.archives[k].line = i}
Suppressed(i) ==
    \/ LineOf(i)[1] = "derived" /\ backup.derived = 0
    \/ LineOf(i)[1] = "repository" /\ backup.repos = 0
Instruction(i) == LineOf(i) # <<>> /\ LineOf(i)[1] \notin {"#", "#original"}
BadTokens(i) ==
    \/ Len(LineOf(i)) \notin {2, 4}
    \/ LineOf(i)[1] \notin {"original", "derived", "repository"}
BadExclude(i) ==
    /\ Len(LineOf(i)) = 4
    /\ LineOf(i)[3] # "exclude"
    /\ LineOf(i)[1] \in {"original", "derived"}
    /\ ~Suppressed(i)
Numbered ==
    /\ \A k \in 1..Len(backup.archives) : backup.archives[k].num = k
    /\ \A k \in 1..(Len(backup.archives) - 1) :
           backup.archives[k].line < backup.archives[k + 1].line
    /\ \A k \in 1..Len(backup.archives) :
           backup.archives[k].repo
               <=> LineOf(backup.archives[k].line)[1] = "repository"
ArchivesAsExpected ==
    \A i \in 1..Len(backup.lines) :
        Cardinality(ArchivesOf(i)) =
            IF i < backup.pos /\ Instruction(i) /\ ~Suppressed(i)
            THEN 1 ELSE 0

\* C18 as stated: every instruction line that was read has one archive,
\* unless it is a derived line with derived=0 or a repository line with
\* repos=0; the archives are numbered from 1 in the order of their lines;
\* UserError is raised at a line exactly when the line has another number
\* of tokens than 2 or 4 or an unknown characterization.
C18_OneArchivePerLine ==
    backup # <<>> =>
        /\ ArchivesAsExpected
        /\ Numbered
        /\ backup.state = "error" => Instruction(backup.pos)
        /\ \A i \in 1..Len(backup.lines) :
               (i < backup.pos /\ Instruction(i)) => ~BadTokens(i)
        /\ backup.state = "error" => BadTokens(backup.pos)

\* C18: the lines are read in order up to the first line that raises
\* UserError; every instruction line read before it has one archive, unless
\* it is a derived line with derived=0 or a repository line with repos=0;
\* the archives are numbered from 1 in the order of their lines; UserError
\* is raised at a line exactly when it has another number of tokens than 2
\* or 4, or an unknown characterization, or when it is an original line, or
\* a derived line with derived # 0, of 4 tokens whose third token is not
\* "exclude"; that line and the lines after it have no archive.
C18_OneArchivePerLineRead ==
    backup # <<>> =>
        /\ ArchivesAsExpected
        /\ Numbered
        /\ backup.state = "error" => Instruction(backup.pos)
        /\ \A i \in 1..Len(backup.lines) :
               (i < backup.pos /\ Instruction(i)) =>
                   ~BadTokens(i) /\ ~BadExclude(i)
        /\ backup.state = "error" =>
               BadTokens(backup.pos) \/ BadExclude(backup.pos)
        /\ backup.state = "done" => backup.pos = Len(backup.lines) + 1

C18_Witness ==
    /\ backup # <<>>
    /\ backup.state = "error"
    /\ backup.derived = 0
    /\ backup.lines = <<<<"derived", "B/c", "include", "pat">>,
                        <<"original", "A", "include", "pat">>>>
    /\ backup.pos = 2


=============================================================================
